---- MODULE Spec2Model ----
(***************************************************************************)
(* Model of rj_export.py: the attachment-face registry kept on a mesh      *)
(* (Mesh.attachment_faces), the tagging handler set_attachment_faces, the  *)
(* document builder (mesh_json / obj_json) and the batch export export_rj. *)
(*                                                                         *)
(* The host (Blender) supplies the scene, the meshes and the file system.  *)
(* One scene is modelled.  Coordinates are integers: the code only copies  *)
(* and negates them.                                                       *)
(***************************************************************************)
EXTENDS Integers, Sequences, FiniteSets

\* ------------------------------------------------------------------ bounds

\* Largest number of polygons the original (editable) mesh of an object has.
MaxPoly == 2

\* Number of handler invocations (tag, edit, export) in one session.
MaxSteps == 3

\* ------------------------------------------------------------- host scene

\* scene.objects, in the order export_rj iterates them.
sceneObjects == <<"hull", "lamp", "dock">>

\* obj.type
ObjType(obj) == IF obj = "lamp" THEN "LAMP" ELSE "MESH"

MeshObjs == {sceneObjects[i] : i \in {j \in 1..Len(sceneObjects) : ObjType(sceneObjects[j]) = "MESH"}}

\* Values of Mesh.attachment_type the panel can hold when the operator runs.
AttachmentTypes == {"door", "hatch"}

\* A number telling the objects' geometry apart.
ObjNum(obj) == IF obj = "hull" THEN 1 ELSE 2

\* Face indices of a mesh with n polygons (Python indices, from 0).
FaceIndices(n) == 0..(n - 1)

VARIABLES
    attachment_faces,  \* obj -> Mesh.attachment_faces: sequence of AttachmentIndex
    npolys,            \* obj -> len(obj.data.polygons) of the original mesh
    files,             \* obj -> the file <obj>.rj
    temp_meshes,       \* objects whose to_mesh() result, acquired by the latest
                       \* export_rj, is still in bpy.data.meshes
    raised,            \* the exception that ended the latest export_rj, if any
    log,               \* the objects of the "Writing ..." lines of the latest export_rj
    unopenable,        \* the objects whose path open() refused in the latest export_rj
    assigned,          \* history: obj -> face index -> type of the last call that
                       \* selected it ("" when none did)
    retagged,          \* history: some call selected a face index of which the
                       \* registry already held an entry
    steps              \* handler invocations so far

vars == <<attachment_faces, npolys, files, temp_meshes, raised, log, unopenable, assigned, retagged, steps>>

\* ------------------------------------------------------- point conversion

\* A mutant of point_array: the remap applied twice.
PointArrayTwice(p) == <<p[1], -p[2], -p[3]>>

\* point_array(p): (p.x, p.z, -p.y)
PointArray(p) == <<p[1], p[3], -p[2]>>

\* point_json(p)
PointJson(p) == [p |-> PointArray(p)]

\* to_list(xs): a copy of the sequence
ToList(xs) == [i \in 1..Len(xs) |-> xs[i]]

\* point_json_from_lst(lst): no remap
PointJsonFromLst(lst) == [p |-> ToList(lst)]

\* ------------------------------------------------------------ host meshes

\* obj.data.polygons[i].center of the original mesh
PolyCenter(obj, i) == <<10 * ObjNum(obj) + i, 3 + i, 5 + 2 * i>>

\* obj.data.polygons[i].normal of the original mesh
PolyNormal(obj, i) == <<i + 1, -(2 + i), 4 + ObjNum(obj)>>

\* obj.data: the original mesh, with its polygon table and its registry
OrigMesh(obj) ==
    [ polygons |-> [k \in 1..npolys[obj] |->
                      [center |-> PolyCenter(obj, k - 1), normal |-> PolyNormal(obj, k - 1)]],
      attachment_faces |-> attachment_faces[obj] ]

\* obj.to_mesh(scene, True, 'RENDER'): the render-evaluated mesh.  Every polygon
\* (a quad of a strip) is tessellated into two triangles, so the mesh has
\* 2n+2 vertices, 2n faces, and its faces are not the original polygons.
ToMesh(obj) ==
    LET n == npolys[obj]
        face(f) == [ index |-> f,
                     material_index |-> f % 2,
                     center |-> <<100 + f, 20 + f + ObjNum(obj), -(7 + f)>>,
                     normal |-> <<-(f + 1), 6 + f, 2 + ObjNum(obj)>>,
                     vertices |-> <<f, f + 1, f + 2>> ]
    IN  [ vertices |-> [k \in 1..(2 * n + 2) |->
                          [ co |-> <<k - 1, ObjNum(obj) + k, -(k + 1)>>,
                            normal |-> <<1, k + 1, -(k + 2)>>,
                            groups |-> <<[group |-> (k - 1) % 2]>> ]],
          tessfaces |-> [k \in 1..(2 * n) |-> face(k - 1)],
          polygons |-> [k \in 1..(2 * n) |-> face(k - 1)],
          tessface_uv_textures |->
              << [ name |-> "UVMap",
                   data |-> [k \in 1..(2 * n) |-> [uv |-> << <<0, k>>, <<1, k>>, <<k, 1>> >>]] ] >>,
          materials |-> <<[name |-> "steel"], [name |-> "glass"]>> ]

\* obj.vertex_groups
VertexGroups(obj) == <<[index |-> 0, name |-> "base"], [index |-> 1, name |-> "tip"]>>

\* ------------------------------------------------------- document builder

\* vertex_json(v): defined by the module, called by nothing
VertexJson(v) == [point |-> PointJson(v.co), normal |-> PointJson(v.normal), groups |-> v.groups]

\* group_names(groups)
GroupNames(groups) == [i \in 1..Len(groups) |-> groups[i].group]

\* vertices_json(vertices)
VerticesJson(vertices) ==
    [i \in 1..Len(vertices) |->
        [p |-> PointArray(vertices[i].co), groups |-> GroupNames(vertices[i].groups)]]

\* face_json(face)
FaceJson(face) ==
    [ index |-> face.index,
      materialIndex |-> face.material_index,
      normal |-> PointJson(face.normal),
      vertexIndexes |-> ToList(face.vertices) ]

\* faces_json(faces)
FacesJson(faces) == [i \in 1..Len(faces) |-> FaceJson(faces[i])]

\* uv_texture_face_json(uv_texture_face)
UvTextureFaceJson(f) == [uvList |-> [i \in 1..Len(f.uv) |-> PointJsonFromLst(f.uv[i])]]

\* uv_texture_layer_json(uv_texture_layer)
UvTextureLayerJson(layer) ==
    [name |-> layer.name, faces |-> [i \in 1..Len(layer.data) |-> UvTextureFaceJson(layer.data[i])]]

\* uv_texture_layers_json(uv_texture_layers)
UvTextureLayersJson(layers) == [i \in 1..Len(layers) |-> UvTextureLayerJson(layers[i])]

\* materials_json(materials)
MaterialsJson(materials) == [i \in 1..Len(materials) |-> [name |-> materials[i].name]]

\* mesh.polygons[face_index] succeeds: the index is inside the table
InRange(mesh, face_index) == face_index >= 0 /\ face_index < Len(mesh.polygons)

\* face_attachment(mesh, face_index, attachment_type), for an index in range
FaceAttachment(mesh, face_index, attachment_type) ==
    LET face == mesh.polygons[face_index + 1]
    IN  [ position |-> PointArray(face.center),
          normal |-> PointArray(face.normal),
          attachment_type |-> attachment_type ]

\* The exceptions export_rj can end with.
NoError == [kind |-> "none", obj |-> "", index |-> -1]
IndexError(obj, index) == [kind |-> "IndexError", obj |-> obj, index |-> index]
IOError(obj) == [kind |-> "IOError", obj |-> obj, index |-> -1]

\* A mutant of mesh_attachment_faces: an entry whose index is out of range is
\* left out of the list.
MeshAttachmentFacesSkip(mesh, afs) ==
    LET inRange(a) == InRange(mesh, a.index)
        kept == SelectSeq(afs, inRange)
    IN  [ ok |-> TRUE,
          val |-> [k \in 1..Len(kept) |->
                     FaceAttachment(mesh, kept[k].index, kept[k].attachment_type)],
          index |-> -1 ]

\* mesh_attachment_faces(mesh, attachment_faces): the list, or the index whose
\* lookup raised (the first one out of range, the map being evaluated in order)
MeshAttachmentFaces(mesh, afs) ==
    LET bad == {k \in 1..Len(afs) : ~InRange(mesh, afs[k].index)}
    IN  IF bad = {}
        THEN [ ok |-> TRUE,
               val |-> [k \in 1..Len(afs) |->
                          FaceAttachment(mesh, afs[k].index, afs[k].attachment_type)],
               index |-> -1 ]
        ELSE [ ok |-> FALSE,
               val |-> <<>>,
               index |-> afs[CHOOSE k \in bad : \A j \in bad : k <= j].index ]

\* A mutant of mesh_json: the attachments resolved against the render mesh.
MeshJsonRender(mesh, orig_mesh) ==
    LET att == MeshAttachmentFaces(mesh, orig_mesh.attachment_faces)
    IN  [ ok |-> att.ok,
          index |-> att.index,
          val |-> [ vertices |-> VerticesJson(mesh.vertices),
                    faces |-> FacesJson(mesh.tessfaces),
                    uvLayers |-> UvTextureLayersJson(mesh.tessface_uv_textures),
                    materials |-> MaterialsJson(mesh.materials),
                    attachments |-> att.val ] ]

\* mesh_json(mesh, orig_mesh)
MeshJson(mesh, orig_mesh) ==
    LET att == MeshAttachmentFaces(orig_mesh, orig_mesh.attachment_faces)
    IN  [ ok |-> att.ok,
          index |-> att.index,
          val |-> [ vertices |-> VerticesJson(mesh.vertices),
                    faces |-> FacesJson(mesh.tessfaces),
                    uvLayers |-> UvTextureLayersJson(mesh.tessface_uv_textures),
                    materials |-> MaterialsJson(mesh.materials),
                    attachments |-> att.val ] ]

\* obj_json(scene, obj): the document and the temporary meshes left in
\* bpy.data.meshes.  The mesh is removed on the line after the document is
\* built, which an exception raised while building never reaches.
ObjJson(obj) ==
    LET mesh == ToMesh(obj)
        m == MeshJson(mesh, OrigMesh(obj))
    IN  IF m.ok
        THEN [ ok |-> TRUE,
               val |-> [name |-> obj, mesh |-> m.val, groups |-> VertexGroups(obj)],
               err |-> NoError,
               held |-> {} ]
        ELSE [ ok |-> FALSE,
               val |-> <<>>,
               err |-> IndexError(obj, m.index),
               held |-> {obj} ]

\* ------------------------------------------------------------------ files

\* No file of that name.
NoFile == [exists |-> FALSE, data |-> <<>>]

\* open(output_filename, "w"): the file created or truncated, nothing written
OpenedFile == [exists |-> TRUE, data |-> <<>>]

\* json.dumps(val, sort_keys=True, indent=4, ...): the text of a document
Dumps(val) == [json |-> val]

\* outp.write(text) on the opened file
WrittenFile(text) == [exists |-> TRUE, data |-> <<text>>]

\* --------------------------------------------------------------- registry

\* get_selected_faces(): the indices of the polygons whose select flag is set,
\* in the order of the polygon table
GetSelectedFaces(obj, selected) ==
    LET all == [k \in 1..npolys[obj] |-> k - 1]
        isSel(i) == i \in selected
    IN  SelectSeq(all, isSel)

\* A mutant of the inner loop: the comparison of the index left out.
UpdateEvery(af, index, attachment_type) ==
    [k \in 1..Len(af) |-> [af[k] EXCEPT !.attachment_type = attachment_type]]

\* The inner loop of set_attachment_faces: every entry of that index gets the type.
UpdateMatching(af, index, attachment_type) ==
    [k \in 1..Len(af) |->
        IF af[k].index = index
        THEN [af[k] EXCEPT !.attachment_type = attachment_type]
        ELSE af[k]]

\* A mutant of the loop body: updated_attachment never set, so an entry is
\* added after the update too.
UpdateAndAppend(af, index, attachment_type) ==
    Append(UpdateMatching(af, index, attachment_type),
           [index |-> index, attachment_type |-> attachment_type])

\* A mutant of the loop body: the entry appended without looking for one.
AppendAlways(af, index, attachment_type) ==
    Append(af, [index |-> index, attachment_type |-> attachment_type])

\* The body of the outer loop: update the entries of that index, or add one.
UpsertIndex(af, index, attachment_type) ==
    IF \E k \in 1..Len(af) : af[k].index = index
    THEN UpdateMatching(af, index, attachment_type)
    ELSE Append(af, [index |-> index, attachment_type |-> attachment_type])

\* A mutant of set_attachment_faces: the registry rebuilt from the selection.
Rebuild(af, indices, attachment_type) ==
    [k \in 1..Len(indices) |-> [index |-> indices[k], attachment_type |-> attachment_type]]

\* set_attachment_faces(attachment_type) on a registry, for the selected indices
RECURSIVE Upsert(_, _, _)
Upsert(af, indices, attachment_type) ==
    IF indices = <<>>
    THEN af
    ELSE Upsert(UpsertIndex(af, Head(indices), attachment_type), Tail(indices), attachment_type)

\* ----------------------------------------------------------------- export

\* export_rj() from the i-th object of the scene on; st is what the objects
\* before it left: the files, the temporary meshes, the log.  `refused` are the
\* objects whose path open() cannot open.  An exception ends the loops.
RECURSIVE ExportFrom(_, _, _)
ExportFrom(i, st, refused) ==
    IF i > Len(sceneObjects)
    THEN st
    ELSE LET obj == sceneObjects[i]
         IN  IF ObjType(obj) # "MESH"
             THEN ExportFrom(i + 1, st, refused)
             ELSE LET printed == [st EXCEPT !.log = Append(@, obj)]
                      r == ObjJson(obj)
                  IN  IF obj \in refused
                      THEN [printed EXCEPT !.raised = IOError(obj)]
                      ELSE IF ~r.ok
                      THEN [printed EXCEPT !.files[obj] = OpenedFile,
                                           !.temp_meshes = @ \cup r.held,
                                           !.raised = r.err]
                      ELSE ExportFrom(i + 1,
                                      [printed EXCEPT !.files[obj] = WrittenFile(Dumps(r.val)),
                                                      !.temp_meshes = @ \cup r.held],
                                      refused)

\* ---------------------------------------------------------------- actions

Init ==
    /\ attachment_faces = [obj \in MeshObjs |-> <<>>]
    /\ npolys = [obj \in MeshObjs |-> MaxPoly]
    /\ files = [obj \in MeshObjs |-> NoFile]
    /\ temp_meshes = {}
    /\ raised = NoError
    /\ log = <<>>
    /\ unopenable = {}
    /\ assigned = [obj \in MeshObjs |-> [i \in FaceIndices(MaxPoly) |-> ""]]
    /\ retagged = FALSE
    /\ steps = 0

\* SetAttachmentFaceOperator.invoke: the active object, the faces selected in
\* edit mode and the mesh's attachment_type are the host's.
SetAttachmentFaces(obj, selected, attachment_type) ==
    /\ attachment_faces' =
          [attachment_faces EXCEPT
              ![obj] = Upsert(@, GetSelectedFaces(obj, selected), attachment_type)]
    /\ assigned' =
          [assigned EXCEPT
              ![obj] = [i \in FaceIndices(MaxPoly) |-> IF i \in selected THEN attachment_type ELSE @[i]]]
    /\ retagged' =
          (retagged \/ \E k \in 1..Len(attachment_faces[obj]) :
                          attachment_faces[obj][k].index \in selected)
    /\ UNCHANGED <<npolys, files, temp_meshes, raised, log, unopenable>>

\* The user edits the mesh: update_from_editmode() brings a polygon table of
\* another size into obj.data.
EditMesh(obj, n) ==
    /\ n # npolys[obj]
    /\ npolys' = [npolys EXCEPT ![obj] = n]
    /\ UNCHANGED <<attachment_faces, files, temp_meshes, raised, log, unopenable, assigned, retagged>>

\* RJExportOperator.invoke: export_rj() over the scene.
ExportRj(refused) ==
    LET r == ExportFrom(1, [files |-> files, temp_meshes |-> {}, raised |-> NoError, log |-> <<>>],
                        refused)
    IN  /\ files' = r.files
        /\ temp_meshes' = r.temp_meshes
        /\ raised' = r.raised
        /\ log' = r.log
        /\ unopenable' = refused
        /\ UNCHANGED <<attachment_faces, npolys, assigned, retagged>>

\* The tagging handler on some object, selection and type.
Tag ==
    \E obj \in MeshObjs : \E selected \in SUBSET FaceIndices(npolys[obj]) :
       \E attachment_type \in AttachmentTypes :
          SetAttachmentFaces(obj, selected, attachment_type)

\* An edit of some mesh.
Edit == \E obj \in MeshObjs : \E n \in 1..MaxPoly : EditMesh(obj, n)

\* An export, open() refusing some of the paths.
Export == \E refused \in SUBSET MeshObjs : ExportRj(refused)

\* One more handler invocation of a session of at most MaxSteps.
Tick == steps < MaxSteps /\ steps' = steps + 1

Next ==
    \/ Tick /\ Tag
    \/ Tick /\ Edit
    \/ Tick /\ Export

Spec == Init /\ [][Next]_vars

\* Tagging and editing only, without a bound on the number of invocations.
NextRegistry ==
    \/ Tag /\ UNCHANGED steps
    \/ Edit /\ UNCHANGED steps

SpecRegistry == Init /\ [][NextRegistry]_vars

\* ----------------------------------------------------------------- claims

\* The axis remap the documents are to show: (x, y, z) becomes (x, z, -y).
Remap(p) == <<p[1], p[3], -p[2]>>

\* The positions of the registry's entries of a face index.
EntriesOf(obj, i) ==
    {k \in 1..Len(attachment_faces[obj]) : attachment_faces[obj][k].index = i}

\* The face indices any call may ever have selected.
AllFaceIndices == FaceIndices(MaxPoly)

\* C1: no two entries of a registry have the same face index.
C1_OneEntryPerFace ==
    \A obj \in MeshObjs :
       \A j, k \in 1..Len(attachment_faces[obj]) :
          j # k => attachment_faces[obj][j].index # attachment_faces[obj][k].index

\* C1's case: a face was tagged again and every face of a mesh has its entry.
C1_Witness ==
    /\ retagged
    /\ \E obj \in MeshObjs : Len(attachment_faces[obj]) = MaxPoly

\* C2: a face index some call selected has exactly one entry, of the type of
\* the last call that selected it; no other face index has an entry.
C2_LastTypeWins ==
    \A obj \in MeshObjs :
       /\ \A k \in 1..Len(attachment_faces[obj]) :
             attachment_faces[obj][k].index \in AllFaceIndices
       /\ \A i \in AllFaceIndices :
             IF assigned[obj][i] = ""
             THEN EntriesOf(obj, i) = {}
             ELSE /\ Cardinality(EntriesOf(obj, i)) = 1
                  /\ \A k \in EntriesOf(obj, i) :
                        attachment_faces[obj][k].attachment_type = assigned[obj][i]

\* C2's case: face 0 of the hull, the only face ever tagged, was tagged twice
\* and holds "hatch".
C2_Witness ==
    /\ retagged
    /\ attachment_faces["hull"] = <<[index |-> 0, attachment_type |-> "hatch"]>>
    /\ attachment_faces["dock"] = <<>>

\* C8: whatever is selected and whatever the type, a call keeps an entry for
\* every face index that had one, keeps the type of the entries outside the
\* selection, and with nothing selected leaves the registry as it was.
C8_NothingRemoved ==
    \A obj \in MeshObjs : \A selected \in SUBSET FaceIndices(npolys[obj]) :
       \A attachment_type \in AttachmentTypes :
          LET old == attachment_faces[obj]
              new == Upsert(old, GetSelectedFaces(obj, selected), attachment_type)
          IN  /\ \A k \in 1..Len(old) :
                    \E j \in 1..Len(new) :
                       /\ new[j].index = old[k].index
                       /\ old[k].index \notin selected =>
                             new[j].attachment_type = old[k].attachment_type
              /\ selected = {} => new = old

\* C8's case: a registry with entries of both types, which calls that selected
\* one face and not the other left side by side.
C8_Witness ==
    \E obj \in MeshObjs :
       /\ Len(attachment_faces[obj]) >= 2
       /\ attachment_faces[obj][1].attachment_type # attachment_faces[obj][2].attachment_type

\* C9: a second call with the same selection and type changes nothing.
C9_Idempotent ==
    \A obj \in MeshObjs : \A selected \in SUBSET FaceIndices(npolys[obj]) :
       \A attachment_type \in AttachmentTypes :
          LET indices == GetSelectedFaces(obj, selected)
              once == Upsert(attachment_faces[obj], indices, attachment_type)
          IN  Upsert(once, indices, attachment_type) = once

\* C9's case: a registry holding an entry, on which a call that selects a
\* tagged and an untagged face both overwrites and appends.
C9_Witness ==
    \E obj \in MeshObjs :
       /\ npolys[obj] = MaxPoly
       /\ Len(attachment_faces[obj]) = 1
       /\ retagged
       /\ Len(Upsert(attachment_faces[obj], GetSelectedFaces(obj, AllFaceIndices), "door")) = MaxPoly

\* The document export_rj has in hand for an object whose file it wrote.
DocOf(file) == file.data[1].json

\* The registry's face indices with no polygon in the original mesh.
OrphanIndices(obj) ==
    {attachment_faces[obj][k].index : k \in 1..Len(attachment_faces[obj])}
       \ FaceIndices(npolys[obj])

\* The attachment record the registry's k-th entry is to give: the remapped
\* center and normal of the original mesh's polygon of that index.
RecordOf(obj, k) ==
    LET e == attachment_faces[obj][k]
    IN  [ position |-> Remap(PolyCenter(obj, e.index)),
          normal |-> Remap(PolyNormal(obj, e.index)),
          attachment_type |-> e.attachment_type ]

\* A step of export_rj: the step is the export with the paths it recorded as
\* refused (Export, with the refused set read from the successor state).  The
\* first two conjuncts, which ExportRj implies, tell most other steps apart
\* before any document is built.
ExportStep ==
    /\ attachment_faces' = attachment_faces
    /\ npolys' = npolys
    /\ ExportRj(unopenable')

\* The objects the export that just ended got as far as announcing.
Announced == {log[k] : k \in 1..Len(log)}

\* C3: the document an export writes for an object has one attachment record
\* per registry entry, in the registry's order, each made of the original
\* mesh's polygon of the entry's index and of the entry's type.
C3_AttachmentsFromOriginal ==
    [][ExportStep =>
          \A obj \in MeshObjs :
             (obj \in Announced' /\ obj # raised'.obj) =>
                /\ files'[obj].data # <<>>
                /\ Len(DocOf(files'[obj]).mesh.attachments) = Len(attachment_faces[obj])
                /\ \A k \in 1..Len(attachment_faces[obj]) :
                      DocOf(files'[obj]).mesh.attachments[k] = RecordOf(obj, k)]_vars

\* C3's case: a file written with two attachment records, from a render mesh
\* whose face count is not the original mesh's polygon count.
C3_Witness ==
    \E obj \in MeshObjs :
       /\ files[obj].data # <<>>
       /\ Len(DocOf(files[obj]).mesh.attachments) = 2
       /\ Len(DocOf(files[obj]).mesh.faces) # npolys[obj]
       /\ OrphanIndices(obj) = {}
       /\ \A k \in 1..2 : DocOf(files[obj]).mesh.attachments[k] = RecordOf(obj, k)

\* C4: an export never writes a document for an object whose registry has an
\* entry without polygon, and when it comes to build that object's document
\* it ends with the error of the lookup of such an index.
C4_OrphanFailsExport ==
    [][ExportStep =>
          \A obj \in MeshObjs :
             OrphanIndices(obj) # {} =>
                /\ files'[obj] = files[obj] \/ files'[obj].data = <<>>
                /\ (obj \in Announced' /\ obj \notin unopenable') =>
                      /\ raised'.kind = "IndexError"
                      /\ raised'.obj = obj
                      /\ raised'.index \in OrphanIndices(obj)]_vars

\* C4's case: an export ended by the lookup of an index that has no polygon.
C4_Witness ==
    /\ raised.kind = "IndexError"
    /\ raised.obj \in MeshObjs
    /\ raised.index \in OrphanIndices(raised.obj)
    /\ raised.index >= npolys[raised.obj]

\* C5: after export_rj no temporary mesh it acquired is still held.
C5_TempMeshReleased == temp_meshes = {}

\* C6: after export_rj every file holds the complete document of that export
\* or is as it was before.
C6_NoPartialFile ==
    [][ExportStep =>
          \A obj \in MeshObjs :
             \/ files'[obj] = files[obj]
             \/ /\ ObjJson(obj).ok
                /\ files'[obj] = WrittenFile(Dumps(ObjJson(obj).val))]_vars

\* C7: when open() refuses an object's path, every mesh object whose path can
\* be opened and whose document can be built still has its file written.
C7_BatchContinues ==
    [][ExportStep =>
          (raised'.kind = "IOError" =>
              \A obj \in MeshObjs \ unopenable' :
                 ObjJson(obj).ok =>
                    files'[obj] = WrittenFile(Dumps(ObjJson(obj).val)))]_vars

\* The points of a document are the remapped points of the meshes: vertex
\* positions and face normals of the render mesh, attachment positions and
\* normals of the original mesh.
PointsRemappedOnce(obj, doc) ==
    LET mesh == ToMesh(obj)
    IN  /\ Len(doc.mesh.vertices) = Len(mesh.vertices)
        /\ \A k \in 1..Len(mesh.vertices) : doc.mesh.vertices[k].p = Remap(mesh.vertices[k].co)
        /\ Len(doc.mesh.faces) = Len(mesh.tessfaces)
        /\ \A k \in 1..Len(mesh.tessfaces) :
              doc.mesh.faces[k].normal.p = Remap(mesh.tessfaces[k].normal)
        /\ Len(doc.mesh.attachments) = Len(attachment_faces[obj])
        /\ \A k \in 1..Len(attachment_faces[obj]) :
              /\ doc.mesh.attachments[k].position = RecordOf(obj, k).position
              /\ doc.mesh.attachments[k].normal = RecordOf(obj, k).normal

\* The vertex records of a document carry the remapped vertex normals.
VertexNormalsRemapped(obj, doc) ==
    LET mesh == ToMesh(obj)
    IN  \A k \in 1..Len(mesh.vertices) :
           /\ "normal" \in DOMAIN doc.mesh.vertices[k]
           /\ \/ doc.mesh.vertices[k].normal = Remap(mesh.vertices[k].normal)
              \/ doc.mesh.vertices[k].normal = [p |-> Remap(mesh.vertices[k].normal)]

\* C10 as amended: every point of a document mesh_json builds (vertex position,
\* face normal, attachment position, attachment normal) is the source triple
\* remapped once, and its vertex records hold a position and groups only: no
\* vertex normal is emitted.
C10_EmittedPointsRemappedOnce ==
    \A obj \in MeshObjs :
       LET r == ObjJson(obj)
       IN  r.ok =>
              /\ PointsRemappedOnce(obj, r.val)
              /\ \A k \in 1..Len(r.val.mesh.vertices) :
                    DOMAIN r.val.mesh.vertices[k] = {"p", "groups"}

\* C10's case: a file holding the document of the current mesh and registry,
\* with an attachment record in it.
C10_Witness ==
    \E obj \in MeshObjs :
       /\ ObjJson(obj).ok
       /\ files[obj] = WrittenFile(Dumps(ObjJson(obj).val))
       /\ Len(DocOf(files[obj]).mesh.attachments) >= 1
       /\ Remap(Remap(PolyCenter(obj, 0))) # Remap(PolyCenter(obj, 0))

\* C10 as stated: the file an export wrote shows, remapped once, the vertex
\* positions, the vertex normals, the face normals and the attachments'
\* positions and normals.
C10_AllFivePointsRemappedOnce ==
    \A obj \in MeshObjs :
       (ObjJson(obj).ok /\ files[obj] = WrittenFile(Dumps(ObjJson(obj).val))) =>
          /\ PointsRemappedOnce(obj, DocOf(files[obj]))
          /\ VertexNormalsRemapped(obj, DocOf(files[obj]))

====
